---- MODULE Spec2Model ----
(***************************************************************************)
(* Model of "Harmonic Oscillator Challenge.ipynb": the finite-difference   *)
(* second-derivative builder, the potential builder, the dense eigensolver *)
(* wrapper HO_solver and the cells that call them.                         *)
(*                                                                         *)
(* Floating-point numbers are modelled as exact rationals num/den extended *)
(* with the IEEE specials: den = 0 encodes +inf (num = 1), -inf (num = -1) *)
(* and nan (num = 0).  Rounding is not modelled.                           *)
(* numpy arrays are records [shape, data]; objects live in a heap (a       *)
(* sequence of arrays) and names hold references (indices, 0 = unbound).   *)
(* tasks holds concurrent executions of HO_solver, step by step.           *)
(***************************************************************************)
EXTENDS Integers, Sequences, FiniteSets, TLC

VARIABLES mem, x, D20, V0, last, ho, tasks

vars == <<mem, x, D20, V0, last, ho, tasks>>

(* ------------------------------ bounds --------------------------------- *)
\* grid lengths N_grid range over -1..MaxN
MaxN == 7
\* x_max ranges over -1..MaxXMax
MaxXMax == 2
\* the same two ranges where HO_solver is called as well
MaxNSolve == 3
MaxXMaxSolve == 1
\* alpha ranges over 0..MaxAlpha
MaxAlpha == 2
\* at most MaxTasks executions of HO_solver run concurrently
MaxTasks == 2

(* ----------------------- the notebook's own values --------------------- *)
\* x_max = 10.0
x_max == 10
\* N_grid=150
N_grid == 150
\* the alpha of HO_solver(2,D20,V0)
PlotAlpha == 2

(* --------------------------- float arithmetic -------------------------- *)
Abs(a) == IF a < 0 THEN -a ELSE a

Sign(a) == IF a < 0 THEN -1 ELSE IF a > 0 THEN 1 ELSE 0

RECURSIVE GCD(_, _)
GCD(a, b) == IF b = 0 THEN a ELSE GCD(b, a % b)

\* the float n/d in lowest terms; n/0 is +inf, -inf or nan by the sign of n
Rat(n, d) ==
    IF d = 0 THEN [num |-> Sign(n), den |-> 0]
    ELSE LET s == IF d < 0 THEN -1 ELSE 1
             g == GCD(Abs(n), Abs(d))
         IN  [num |-> (s * n) \div g, den |-> (s * d) \div g]

FromInt(n) == Rat(n, 1)

Zero == FromInt(0)

NaN == [num |-> 0, den |-> 0]

IsNaN(a) == a.den = 0 /\ a.num = 0

IsFinite(a) == a.den # 0

\* a + b (inf + inf = inf, inf - inf = nan, nan + anything = nan)
RAdd(a, b) ==
    IF a.den = 0 /\ b.den = 0
    THEN (IF a.num = b.num THEN a ELSE NaN)
    ELSE Rat(a.num * b.den + b.num * a.den, a.den * b.den)

RNeg(a) == [num |-> -a.num, den |-> a.den]

RSub(a, b) == RAdd(a, RNeg(b))

\* a * b (inf * 0 = nan)
RMul(a, b) == Rat(a.num * b.num, a.den * b.den)

\* a / b with numpy's float behaviour: x/0 = +-inf, 0/0 = nan, no exception
RDiv(a, b) ==
    IF IsNaN(a) \/ IsNaN(b) THEN NaN
    ELSE LET s == IF b.num < 0 THEN -1 ELSE 1
         IN  Rat(s * a.num * b.den, s * a.den * b.num)

\* a ** 2
RSq(a) == RMul(a, a)

RLeq(a, b) == IsFinite(a) /\ IsFinite(b) /\ a.num * b.den <= b.num * a.den

(* ------------------------------ ndarrays ------------------------------- *)
\* a 0-d array (or Python scalar)
Scalar(v) == [shape |-> <<>>, data |-> v]

\* a 1-d array from a sequence of floats (s \o <<>> is s, held as a tuple)
Vec(s) == [shape |-> <<Len(s)>>, data |-> s \o <<>>]

\* a 2-d array from a sequence of r rows of c floats
Mat(r, c, rows) ==
    [shape |-> <<r, c>>, data |-> [i \in 1..r |-> rows[i] \o <<>>] \o <<>>]

NDim(A) == Len(A.shape)

\* len(A) of a 1-d array
PyLen(A) == A.shape[1]

\* A[i], 0-based, of a 1-d array whose index is in range
Item(A, i) == A.data[i + 1]

\* A[i][j], 0-based, of a 2-d array
At(A, i, j) == A.data[i + 1][j + 1]

\* np.ones(n) * c
OnesTimes(n, c) == Vec([i \in 1..n |-> RMul(FromInt(1), c)])

\* np.diag(v, k) of a 1-d array v: the square matrix of size len(v)+|k| with v
\* on diagonal k (k > 0 above the main diagonal) and zeros elsewhere
NpDiag(v, k) ==
    LET n == PyLen(v) + Abs(k)
    IN  Mat(n, n, [i \in 1..n |-> [j \in 1..n |->
            IF j - i = k
            THEN v.data[IF k >= 0 THEN i ELSE j]
            ELSE Zero]])

\* elementwise A + B of two 2-d arrays of the same shape
MatAdd(A, B) ==
    Mat(A.shape[1], A.shape[2],
        [i \in 1..A.shape[1] |-> [j \in 1..A.shape[2] |->
            RAdd(A.data[i][j], B.data[i][j])]])

\* xgrid**2 of a 1-d array
VecSq(v) == Vec([i \in 1..PyLen(v) |-> RSq(v.data[i])])

(* --------------------------- call outcomes ----------------------------- *)
\* a Python call either returns a value or raises; val is <<>> when it raises
Ok(v) == [status |-> "ok", exc |-> "", val |-> <<v>>]

Raise(e) == [status |-> "raise", exc |-> e, val |-> <<>>]

(* ----------------------------- np.linspace ----------------------------- *)
\* np.linspace(start, stop, num) with endpoint=True, start and stop integers
Linspace(start, stop, num) ==
    IF num < 0 THEN Raise("ValueError")
    ELSE LET div   == num - 1
             delta == FromInt(stop - start)
             step  == IF div > 0 THEN RDiv(delta, FromInt(div)) ELSE delta
             y     == [i \in 1..num |->
                         IF num > 1 /\ i = num
                         THEN FromInt(stop)
                         ELSE RAdd(RMul(FromInt(i - 1), step), FromInt(start))]
         IN  Ok(Vec(y))

(* ------------------ generate_second_derivative_matrix ------------------ *)
\* mutant of main_diag: the three-point centre coefficient -2/dx**2
main_diag_three_point(N, dx) ==
    OnesTimes(N, RDiv(FromInt(-2), RSq(dx)))

\* mutant of main_diag: the first row is pinned (a Dirichlet boundary row,
\* main_diag[0] = 1)
main_diag_pinned(N, dx) ==
    Vec([i \in 1..N |-> IF i = 1 THEN FromInt(1)
                        ELSE RDiv(RDiv(FromInt(-5), FromInt(2)), RSq(dx))])

\* main_diag = np.ones(N) * (-5.0 /2 / dx**2)
main_diag(N, dx) ==
    OnesTimes(N, RDiv(RDiv(FromInt(-5), FromInt(2)), RSq(dx)))

\* mutant of off_diag: the three-point neighbour coefficient 1/dx**2
off_diag_three_point(N, dx) ==
    OnesTimes(N - 1, RDiv(FromInt(1), RSq(dx)))

\* off_diag = np.ones(N - 1)* 4/3 / dx**2
off_diag(N, dx) ==
    OnesTimes(N - 1, RDiv(RDiv(FromInt(4), FromInt(3)), RSq(dx)))

\* mutant of off_diag2: the outer coefficient is dropped (a three-diagonal
\* stencil)
off_diag2_absent(N, dx) == OnesTimes(N - 2, Zero)

\* off_diag2 = np.ones(N - 2) * (-1.0 / (12 * dx**2))
off_diag2(N, dx) ==
    OnesTimes(N - 2, RDiv(FromInt(-1), RMul(FromInt(12), RSq(dx))))

\* mutant of AssembleD2: the k=-1 diagonal is left out
AssembleD2_no_lower(N, dx) ==
    MatAdd(MatAdd(MatAdd(NpDiag(main_diag(N, dx), 0),
                         NpDiag(off_diag(N, dx), 1)),
                  NpDiag(off_diag2(N, dx), 2)),
           NpDiag(off_diag2(N, dx), -2))

\* mutant of AssembleD2: periodic boundary, the coefficients that fall
\* outside the grid wrap around into the corners
AssembleD2_periodic(N, dx) ==
    MatAdd(MatAdd(MatAdd(MatAdd(MatAdd(MatAdd(MatAdd(MatAdd(
        NpDiag(main_diag(N, dx), 0),
        NpDiag(off_diag(N, dx), 1)),
        NpDiag(off_diag(N, dx), -1)),
        NpDiag(off_diag2(N, dx), 2)),
        NpDiag(off_diag2(N, dx), -2)),
        NpDiag(off_diag(2, dx), N - 1)),
        NpDiag(off_diag(2, dx), -(N - 1))),
        NpDiag(off_diag2(4, dx), N - 2)),
        NpDiag(off_diag2(4, dx), -(N - 2)))

\* D2 = np.diag(main_diag) + np.diag(off_diag, k=1) + np.diag(off_diag, k=-1)
\*      + np.diag(off_diag2, k=2) + np.diag(off_diag2, k=-2)
AssembleD2(N, dx) ==
    MatAdd(MatAdd(MatAdd(MatAdd(NpDiag(main_diag(N, dx), 0),
                                NpDiag(off_diag(N, dx), 1)),
                         NpDiag(off_diag(N, dx), -1)),
                  NpDiag(off_diag2(N, dx), 2)),
           NpDiag(off_diag2(N, dx), -2))

\* mutant of GridSpacing: the mean spacing of the whole grid
\* (dx = (xgrid[-1]-xgrid[0])/(N-1))
GridSpacing_mean(xgrid) ==
    RDiv(RSub(Item(xgrid, PyLen(xgrid) - 1), Item(xgrid, 0)),
         FromInt(PyLen(xgrid) - 1))

\* dx = xgrid[1]-xgrid[0]
GridSpacing(xgrid) == RSub(Item(xgrid, 1), Item(xgrid, 0))

\* mutant of generate_second_derivative_matrix: grids of fewer than five
\* points are rejected
generate_second_derivative_matrix_min5(xgrid) ==
    IF PyLen(xgrid) < 5 THEN Raise("ValueError")
    ELSE Ok(AssembleD2(PyLen(xgrid), GridSpacing(xgrid)))

\* the whole function on a 1-d grid: xgrid[1] raises IndexError when N < 2
generate_second_derivative_matrix(xgrid) ==
    LET N == PyLen(xgrid)
    IN  IF N < 2 THEN Raise("IndexError")
        ELSE Ok(AssembleD2(N, GridSpacing(xgrid)))

(* ---------------------- generate_potential_matrix ---------------------- *)
\* mutant of generate_potential_matrix: the potential is doubled
\* (np.diag(2*xgrid**2))
generate_potential_matrix_doubled(xgrid) ==
    Ok(NpDiag(Vec([i \in 1..PyLen(xgrid) |->
                     RMul(FromInt(2), RSq(xgrid.data[i]))]), 0))

\* mutant of generate_potential_matrix: the square is forgotten
generate_potential_matrix_unsquared(xgrid) == Ok(NpDiag(xgrid, 0))

\* np.diag(xgrid**2)
generate_potential_matrix(xgrid) == Ok(NpDiag(VecSq(xgrid), 0))

(* ------------------------------ the heap ------------------------------- *)
\* objects are heap slots; a new array gets the next slot
Alloc(heap, arr) == Append(heap, arr)

\* the module-level names of the notebook and the objects they are bound to
Env(xr, dr, vr) == [x |-> xr, D20 |-> dr, V0 |-> vr]

(* ---------------------- numpy elementwise operators -------------------- *)
Max2(a, b) == IF a >= b THEN a ELSE b

\* a shape padded on the left with 1s to n dimensions
PadShape(s, n) ==
    [k \in 1..n |-> IF k <= n - Len(s) THEN 1 ELSE s[k - (n - Len(s))]]

\* numpy's broadcasting rule: aligned from the right, sizes equal or 1
Broadcastable(sa, sb) ==
    LET n == Max2(Len(sa), Len(sb))
    IN  \A k \in 1..n :
            \/ PadShape(sa, n)[k] = PadShape(sb, n)[k]
            \/ PadShape(sa, n)[k] = 1
            \/ PadShape(sb, n)[k] = 1

BroadcastShape(sa, sb) ==
    LET n == Max2(Len(sa), Len(sb))
    IN  [k \in 1..n |-> IF PadShape(sa, n)[k] = 1
                        THEN PadShape(sb, n)[k]
                        ELSE PadShape(sa, n)[k]]

\* the element of A, broadcast to Len(idx) dimensions, at the 1-based index idx
BGet(A, idx) ==
    LET n == Len(idx)
        d == NDim(A)
        own == [k \in 1..d |-> IF A.shape[k] = 1 THEN 1 ELSE idx[k + n - d]]
    IN  CASE d = 0 -> A.data
          [] d = 1 -> A.data[own[1]]
          [] d = 2 -> A.data[own[1]][own[2]]

\* A + B with broadcasting (shapes broadcastable, at most 2 dimensions)
BAdd(A, B) ==
    LET s == BroadcastShape(A.shape, B.shape)
    IN  CASE Len(s) = 0 -> Scalar(RAdd(A.data, B.data))
          [] Len(s) = 1 ->
               Vec([j \in 1..s[1] |-> RAdd(BGet(A, <<j>>), BGet(B, <<j>>))])
          [] Len(s) = 2 ->
               Mat(s[1], s[2], [i \in 1..s[1] |-> [j \in 1..s[2] |->
                   RAdd(BGet(A, <<i, j>>), BGet(B, <<i, j>>))]])

\* -A : a new array
Negative(A) ==
    CASE NDim(A) = 0 -> Scalar(RNeg(A.data))
      [] NDim(A) = 1 -> Vec([j \in 1..A.shape[1] |-> RNeg(A.data[j])])
      [] NDim(A) = 2 ->
           Mat(A.shape[1], A.shape[2], [i \in 1..A.shape[1] |->
               [j \in 1..A.shape[2] |-> RNeg(A.data[i][j])]])

\* alpha*A for a Python integer alpha : a new array
Scale(alpha, A) ==
    CASE NDim(A) = 0 -> Scalar(RMul(FromInt(alpha), A.data))
      [] NDim(A) = 1 ->
           Vec([j \in 1..A.shape[1] |-> RMul(FromInt(alpha), A.data[j])])
      [] NDim(A) = 2 ->
           Mat(A.shape[1], A.shape[2], [i \in 1..A.shape[1] |->
               [j \in 1..A.shape[2] |-> RMul(FromInt(alpha), A.data[i][j])]])

\* A.T of a 2-d array
Transpose(A) ==
    Mat(A.shape[2], A.shape[1], [j \in 1..A.shape[2] |->
        [i \in 1..A.shape[1] |-> A.data[i][j]]])

\* A[i], 0-based, of a 2-d array: row i as a 1-d array
Row(A, i) == Vec(A.data[i + 1])

(* --------------------------- np.linalg.eigh ---------------------------- *)
\* The decomposition itself is numpy's (LAPACK), not this repository's; it is
\* modelled by its documented contract.  For a square 2-d H it either raises
\* LinAlgError (no convergence) or returns (w, v): the eigenvalues w in
\* ascending order and a matrix v whose COLUMN k is the eigenvector of w[k].
\* Which of these it does for a given H is the library's choice: a choice
\* record [conv, w], fixed per matrix (the same H always decomposes the same
\* way: memo), fresh for a matrix not decomposed before.
\* Entry v[i][k] is the token "component i of eigenvector number k, which
\* belongs to eigenvalue w[k]".
IsSquare2D(H) == NDim(H) = 2 /\ H.shape[1] = H.shape[2]

AllFinite(H) ==
    \A i \in 1..H.shape[1] : \A j \in 1..H.shape[2] : IsFinite(H.data[i][j])

NoChoice == [conv |-> FALSE]

Memoized(H, memo) == \E m \in memo : m.H = H

MemoChoice(H, memo) == (CHOOSE m \in memo : m.H = H).c

\* the values of an eigendecomposition are not computed. Entry k of the first
\* array eigh returns is the k-th eigenvalue of its argument in ascending
\* order, entry (i, k) of the second is component i of the eigenvector that
\* belongs to that eigenvalue.
Eigenvalue(k) == [eig |-> k]

IsEigenvalue(v) == DOMAIN v = {"eig"}

\* the order of two eigenvalues of one decomposition
EigLeq(a, b) == IsEigenvalue(a) /\ IsEigenvalue(b) /\ a.eig <= b.eig

EigComponent(k, i, ev) == [vec |-> k, comp |-> i, ev |-> ev]

EigVectors(w) ==
    LET M == Len(w)
    IN  Mat(M, M, [i \in 1..M |-> [k \in 1..M |->
            EigComponent(k - 1, i - 1, w[k])]])

\* the eigenvalues returned for H, ascending; a matrix holding inf or nan
\* comes back with nan eigenvalues when the decomposition does not fail
EigValues(H) ==
    LET finite == AllFinite(H)
    IN  [k \in 1..H.shape[1] |-> IF finite THEN Eigenvalue(k - 1) ELSE NaN]

\* np.linalg.eigh(H): [out, consulted, c, arg] - the outcome, whether LAPACK
\* ran, the choice it made and the matrix it was given
Eigh(H, lib) ==
    IF ~IsSquare2D(H)
    THEN [out |-> Raise("LinAlgError"), consulted |-> FALSE, c |-> NoChoice,
          arg |-> H]
    ELSE IF H.shape[1] = 0
    THEN [out |-> Ok(<<Vec(<<>>), Mat(0, 0, <<>>)>>),
          consulted |-> FALSE, c |-> NoChoice, arg |-> H]
    ELSE LET c == IF Memoized(H, lib.memo)
                  THEN MemoChoice(H, lib.memo) ELSE lib.fresh
             w == EigValues(H) \o <<>>
         IN  IF ~c.conv
             THEN [out |-> Raise("LinAlgError"), consulted |-> TRUE, c |-> c,
                   arg |-> H]
             ELSE [out |-> Ok(<<Vec(w), EigVectors(w)>>),
                   consulted |-> TRUE, c |-> c, arg |-> H]

(* ------------------------------ HO_solver ------------------------------ *)
\* what a call of HO_solver leaves behind: its outcome, the heap and the
\* module-level bindings at return, the object H (0: never formed), the eigh
\* calls it made (a sequence of Eigh records)
Returned(ret, heap, env, Href, eighs) ==
    [ret |-> ret, heap |-> heap, env |-> env, Href |-> Href, eighs |-> eighs]

\* mutant of Hamiltonian: computed in place in the first operand
\* (D2Mat *= -1; D2Mat += alpha*vpot; H = D2Mat)
Hamiltonian_in_place(alpha, D2Mat, vpot, heap) ==
    LET neg  == Negative(heap[D2Mat])
        prod == Scale(alpha, heap[vpot])
        h1   == Alloc([heap EXCEPT ![D2Mat] = neg], prod)
    IN  IF \/ ~Broadcastable(neg.shape, prod.shape)
           \/ BroadcastShape(neg.shape, prod.shape) # neg.shape
        THEN [ok |-> FALSE, heap |-> h1, Href |-> 0]
        ELSE [ok |-> TRUE, heap |-> [h1 EXCEPT ![D2Mat] = BAdd(neg, prod)],
              Href |-> D2Mat]

\* mutant of Hamiltonian: alpha is dropped (H = -D2Mat + vpot)
Hamiltonian_unscaled(alpha, D2Mat, vpot, heap) ==
    LET neg  == Negative(heap[D2Mat])
        prod == Scale(1, heap[vpot])
        h2   == Alloc(Alloc(heap, neg), prod)
    IN  IF ~Broadcastable(neg.shape, prod.shape)
        THEN [ok |-> FALSE, heap |-> h2, Href |-> 0]
        ELSE [ok |-> TRUE, heap |-> Alloc(h2, BAdd(neg, prod)),
              Href |-> Len(h2) + 1]

\* mutant of Hamiltonian: the product is computed in place in vpot
\* (vpot *= alpha; H = -D2Mat + vpot)
Hamiltonian_scales_vpot(alpha, D2Mat, vpot, heap) ==
    LET neg  == Negative(heap[D2Mat])
        prod == Scale(alpha, heap[vpot])
        h2   == Alloc(Alloc([heap EXCEPT ![vpot] = prod], neg), prod)
    IN  IF ~Broadcastable(neg.shape, prod.shape)
        THEN [ok |-> FALSE, heap |-> h2, Href |-> 0]
        ELSE [ok |-> TRUE, heap |-> Alloc(h2, BAdd(neg, prod)),
              Href |-> Len(h2) + 1]

\* H = -D2Mat + alpha*vpot : [heap, Href, ok]; the negation, the product and
\* the sum are three new arrays; ValueError when the shapes do not broadcast
Hamiltonian(alpha, D2Mat, vpot, heap) ==
    LET neg  == Negative(heap[D2Mat])
        prod == Scale(alpha, heap[vpot])
        h2   == Alloc(Alloc(heap, neg), prod)
    IN  IF ~Broadcastable(neg.shape, prod.shape)
        THEN [ok |-> FALSE, heap |-> h2, Href |-> 0]
        ELSE [ok |-> TRUE, heap |-> Alloc(h2, BAdd(neg, prod)),
              Href |-> Len(h2) + 1]

\* mutant of SelectGround: row 0 of evects instead of column 0
SelectGround_row0(evals, evects) ==
    IF PyLen(evals) = 0 THEN Raise("IndexError")
    ELSE Ok(<<Item(evals, 0), Row(evects, 0)>>)

\* [evals[0], evects.T[0]] : IndexError on an empty decomposition
SelectGround(evals, evects) ==
    IF PyLen(evals) = 0 THEN Raise("IndexError")
    ELSE Ok(<<Item(evals, 0), Row(Transpose(evects), 0)>>)

\* mutant of EighAndSelect: a failure of eigh is caught and a placeholder
\* result returned (try: ... except LinAlgError: return [nan, []])
EighAndSelect_swallow(h, st) ==
    LET e == Eigh(h.heap[h.Href], st.lib)
    IN  IF e.out.status = "raise"
        THEN Returned(Ok(<<NaN, Vec(<<>>)>>), h.heap, st.env, h.Href, <<e>>)
        ELSE Returned(SelectGround(e.out.val[1][1], e.out.val[1][2]),
                      Alloc(Alloc(h.heap, e.out.val[1][1]), e.out.val[1][2]),
                      st.env, h.Href, <<e>>)

\* mutant of EighAndSelect: H is decomposed twice (np.linalg.eigvalsh(H) for
\* the eigenvalues, np.linalg.eigh(H) for the vectors)
EighAndSelect_twice(h, st) ==
    LET e == Eigh(h.heap[h.Href], st.lib)
    IN  IF e.out.status = "raise"
        THEN Returned(e.out, h.heap, st.env, h.Href, <<e>>)
        ELSE Returned(SelectGround(e.out.val[1][1], e.out.val[1][2]),
                      Alloc(Alloc(h.heap, e.out.val[1][1]), e.out.val[1][2]),
                      st.env, h.Href, <<e, e>>)

\* evals,evects = np.linalg.eigh(H); return [evals[0],evects.T[0]]
\* h is what Hamiltonian left; an exception of eigh is not caught
EighAndSelect(h, st) ==
    LET e == Eigh(h.heap[h.Href], st.lib)
    IN  IF e.out.status = "raise"
        THEN Returned(e.out, h.heap, st.env, h.Href, <<e>>)
        ELSE Returned(SelectGround(e.out.val[1][1], e.out.val[1][2]),
                      Alloc(Alloc(h.heap, e.out.val[1][1]), e.out.val[1][2]),
                      st.env, h.Href, <<e>>)

\* mutant of HO_solver: operands of different shapes are rejected
HO_solver_same_shape(alpha, D2Mat, vpot, st) ==
    LET h == Hamiltonian(alpha, D2Mat, vpot, st.heap)
    IN  IF ~h.ok \/ st.heap[D2Mat].shape # st.heap[vpot].shape
        THEN Returned(Raise("ValueError"), st.heap, st.env, 0, <<>>)
        ELSE EighAndSelect(h, st)

\* mutant of HO_solver: the body reads the module-level V0 instead of its
\* parameter vpot (NameError while V0 is unbound)
HO_solver_global_V0(alpha, D2Mat, vpot, st) ==
    IF st.env.V0 = 0
    THEN Returned(Raise("NameError"), st.heap, st.env, 0, <<>>)
    ELSE LET h == Hamiltonian(alpha, D2Mat, st.env.V0, st.heap)
         IN  IF ~h.ok
             THEN Returned(Raise("ValueError"), h.heap, st.env, 0, <<>>)
             ELSE EighAndSelect(h, st)

\* mutant of HO_solver: a non-positive alpha is rejected
\* (if alpha <= 0: raise ValueError)
HO_solver_positive_alpha(alpha, D2Mat, vpot, st) ==
    IF alpha <= 0
    THEN Returned(Raise("ValueError"), st.heap, st.env, 0, <<>>)
    ELSE LET h == Hamiltonian(alpha, D2Mat, vpot, st.heap)
         IN  IF ~h.ok
             THEN Returned(Raise("ValueError"), h.heap, st.env, 0, <<>>)
             ELSE EighAndSelect(h, st)

\* def HO_solver(alpha,D2Mat,vpot): D2Mat and vpot are references into
\* st.heap; st = [heap, env, lib]
HO_solver(alpha, D2Mat, vpot, st) ==
    LET h == Hamiltonian(alpha, D2Mat, vpot, st.heap)
    IN  IF ~h.ok
        THEN Returned(Raise("ValueError"), h.heap, st.env, 0, <<>>)
        ELSE EighAndSelect(h, st)

(* ------------------------------ the caller ----------------------------- *)
\* The record of a call: the function, its arguments (values), its outcome,
\* the number of objects and the bindings before it, the objects among those
\* whose contents differ after it (changed), and for HO_solver the
\* reference of H, H itself, the eigh calls made, whether the call repeats
\* the arguments of the HO_solver call before it (again) and, if so, what
\* that call returned and the bindings it ran under (prev).
Call(fn, args, ret, npre, envpre, changed, Href, H, eighs, again, prev) ==
    [fn |-> fn, args |-> args, ret |-> ret, npre |-> npre, envpre |-> envpre,
     changed |-> changed, Href |-> Href, H |-> H, eighs |-> eighs,
     again |-> again, prev |-> prev]

NoPrev == [ret |-> Raise(""), env |-> Env(0, 0, 0)]

NoCall ==
    Call("", <<>>, Raise(""), 0, Env(0, 0, 0), {}, 0, <<>>, <<>>,
         FALSE, NoPrev)

\* a call of one of the builders or of np.linspace: no H, no eigh
Plain(fn, args, ret) ==
    Call(fn, args, ret, Len(mem), Env(x, D20, V0), {}, 0, <<>>, <<>>,
         FALSE, NoPrev)

\* the latest call of HO_solver: its arguments, its outcome, the bindings it
\* ran under and what it showed of the library's behaviour (memo)
HoCall(args, ret, env, memo) ==
    [args |-> args, ret |-> ret, env |-> env, memo |-> memo]

NoHo == HoCall(<<>>, Raise(""), Env(0, 0, 0), {})

\* what np.linalg.eigh leaves in a task that has not called it
NoEigh ==
    [out |-> Raise(""), consulted |-> FALSE, c |-> NoChoice, arg |-> <<>>]

\* an execution of HO_solver(alpha, D20, V0) in progress: where it stands
\* (pc), its locals H, evals, evects (references, 0 = unbound), what eigh
\* returned to it (e) and what it returned (ret)
Task(alpha, pc, Href, evals, evects, e, ret) ==
    [alpha |-> alpha, pc |-> pc, Href |-> Href, evals |-> evals,
     evects |-> evects, e |-> e, ret |-> ret]

NewTask(alpha) == Task(alpha, "start", 0, 0, 0, NoEigh, Raise(""))

\* no task started: base is the heap when the tasks were started
NoTasks == [base |-> <<>>, run |-> <<>>]

Init ==
    /\ mem = <<>>
    /\ x = 0
    /\ D20 = 0
    /\ V0 = 0
    /\ last = NoCall
    /\ ho = NoHo
    /\ tasks = NoTasks

\* x = np.linspace(-x_max, x_max, N_grid); the name stays unbound on an error
BindGrid(xm, n) ==
    \E r \in {Linspace(-xm, xm, n)} :
        /\ x = 0
        /\ last' = Plain("np.linspace", <<xm, n>>, r)
        /\ IF r.status = "ok"
           THEN mem' = Alloc(mem, r.val[1]) /\ x' = Len(mem) + 1
           ELSE UNCHANGED <<mem, x>>
        /\ UNCHANGED <<D20, V0, ho, tasks>>

MakeGrid == \E xm \in -1..MaxXMax : \E n \in -1..MaxN : BindGrid(xm, n)

MakeGridSolve ==
    \E xm \in 0..MaxXMaxSolve : \E n \in 1..MaxNSolve : BindGrid(xm, n)

\* the notebook's grid cell: x = np.linspace(-x_max, x_max, N_grid) with
\* x_max = 10.0 and N_grid = 150
GridCell == BindGrid(x_max, N_grid)

\* a grid that np.linspace does not produce: point k of a linspace grid moved
\* by one (x = np.array([...]))
Moved(g, k) == Vec([i \in 1..PyLen(g) |->
                     IF i = k + 1 THEN RAdd(g.data[i], FromInt(1))
                     ELSE g.data[i]])

MakeGridLiteral ==
    \E xm \in -1..MaxXMax : \E n \in 1..MaxN : \E k \in 0..(n - 1) :
        \E g \in {Moved(Linspace(-xm, xm, n).val[1], k)} :
            /\ x = 0
            /\ last' = Plain("np.array", <<g>>, Ok(g))
            /\ mem' = Alloc(mem, g)
            /\ x' = Len(mem) + 1
            /\ UNCHANGED <<D20, V0, ho, tasks>>

\* D20 = generate_second_derivative_matrix(x)
CallD2 ==
    /\ x # 0
    /\ D20 = 0
    /\ \E r \in {generate_second_derivative_matrix(mem[x])} :
        /\ last' = Plain("generate_second_derivative_matrix", <<mem[x]>>, r)
        /\ IF r.status = "ok"
           THEN mem' = Alloc(mem, r.val[1]) /\ D20' = Len(mem) + 1
           ELSE UNCHANGED <<mem, D20>>
    /\ UNCHANGED <<x, V0, ho, tasks>>

\* V0 = generate_potential_matrix(x)
CallV ==
    /\ x # 0
    /\ V0 = 0
    /\ \E r \in {generate_potential_matrix(mem[x])} :
        /\ last' = Plain("generate_potential_matrix", <<mem[x]>>, r)
        /\ IF r.status = "ok"
           THEN mem' = Alloc(mem, r.val[1]) /\ V0' = Len(mem) + 1
           ELSE UNCHANGED <<mem, V0>>
    /\ UNCHANGED <<x, D20, ho, tasks>>

\* the arrays a caller may pass besides the notebook's own: a scalar,
\* np.ones((1,1)) and np.eye(2)
Literals ==
    <<Scalar(FromInt(1)),
      Mat(1, 1, <<<<FromInt(1)>>>>),
      Mat(2, 2, <<<<FromInt(1), Zero>>, <<Zero, FromInt(1)>>>>)>>

\* the reference an operand name stands for in a heap that holds the
\* literals right after the caller's objects (0: an unbound name)
Operand(name) ==
    CASE name = "x" -> x
      [] name = "D20" -> D20
      [] name = "V0" -> V0
      [] name = "scalar" -> Len(mem) + 1
      [] name = "one" -> Len(mem) + 2
      [] name = "eye2" -> Len(mem) + 3

\* (D2Mat, vpot) operand pairs tried
ArgPairs ==
    {<<"D20", v>> : v \in {"V0", "x", "scalar", "one", "eye2"}}
        \cup {<<"x", "x">>, <<"one", "V0">>}

\* the choices the decomposition can make: it converges or it does not
Choices == {[conv |-> b] : b \in BOOLEAN}

\* the choices open to a call that made the eigh calls es on H: a matrix
\* other than the one the latest call decomposed gets either choice,
\* anything else none
Open(es, H) ==
    IF es # <<>> /\ es[1].consulted /\ ~Memoized(H, ho.memo)
    THEN Choices
    ELSE {NoChoice}

Learned(es, H) ==
    IF es # <<>> /\ es[1].consulted THEN {[H |-> H, c |-> es[1].c]} ELSE {}

HOf(r) == IF r.Href = 0 THEN <<>> ELSE r.heap[r.Href]

\* the caller's heap at the call: its objects, then the literals
Heap0 == mem \o Literals

\* the state HO_solver runs in when the library's fresh choice is c
StateAt(c) ==
    [heap |-> Heap0, env |-> Env(x, D20, V0),
     lib |-> [memo |-> ho.memo, fresh |-> c]]

\* the choices open to HO_solver(alpha, p[1], p[2])
OpenFor(alpha, p) ==
    LET r0 == HO_solver(alpha, Operand(p[1]), Operand(p[2]),
                        StateAt(NoChoice))
    IN  Open(r0.eighs, HOf(r0))

\* what HO_solver(alpha, p[1], p[2]) leaves when the library chooses c: the
\* call's record and the caller's heap and bindings after it (the objects
\* the call allocated are dropped when it returns)
AfterHO(alpha, p, c) ==
    LET r == HO_solver(alpha, Operand(p[1]), Operand(p[2]), StateAt(c))
        args == <<alpha, Heap0[Operand(p[1])], Heap0[Operand(p[2])]>>
        again == ho # NoHo /\ args = ho.args
    IN  [last |-> Call("HO_solver", args, r.ret, Len(Heap0), Env(x, D20, V0),
                       {i \in 1..Len(Heap0) : r.heap[i] # Heap0[i]},
                       r.Href, HOf(r), r.eighs, again,
                       IF again THEN [ret |-> ho.ret, env |-> ho.env]
                       ELSE NoPrev),
         ho |-> HoCall(args, r.ret, Env(x, D20, V0),
                       Learned(r.eighs, HOf(r))),
         mem |-> SubSeq(r.heap, 1, Len(mem)),
         env |-> r.env]

\* HO_solver(alpha, p[1], p[2]) called with two bound operands
Solve(alpha, p) ==
    /\ Operand(p[1]) # 0
    /\ Operand(p[2]) # 0
    /\ \E c \in OpenFor(alpha, p) : \E n \in {AfterHO(alpha, p, c)} :
          /\ last' = n.last
          /\ ho' = n.ho
          /\ mem' = n.mem
          /\ x' = n.env.x
          /\ D20' = n.env.D20
          /\ V0' = n.env.V0
          /\ UNCHANGED tasks

\* HO_solver called with any alpha and any operand pair, on the grids of up
\* to MaxNSolve points
CallHO ==
    /\ x # 0
    /\ PyLen(mem[x]) <= MaxNSolve
    /\ \E alpha \in 0..MaxAlpha : \E p \in ArgPairs : Solve(alpha, p)

\* the notebook's plot cell: HO_solver(2,D20,V0)
PlotCell == Solve(PlotAlpha, <<"D20", "V0">>)

\* the builders on every grid
NextBuild == MakeGrid \/ MakeGridLiteral \/ CallD2 \/ CallV

SpecBuild == Init /\ [][NextBuild]_vars

\* the builders and the solver
Next == MakeGridSolve \/ GridCell \/ CallD2 \/ CallV \/ CallHO \/ PlotCell

Spec == Init /\ [][Next]_vars

\* a run of the notebook: the grid cell, the two builders, and solves of the
\* built operators for any alpha
SolveAlpha ==
    /\ x # 0
    /\ PyLen(mem[x]) <= MaxNSolve
    /\ \E alpha \in 0..MaxAlpha : Solve(alpha, <<"D20", "V0">>)

NextRun ==
    MakeGridSolve \/ GridCell \/ CallD2 \/ CallV \/ SolveAlpha \/ PlotCell

SpecRun == Init /\ [][NextRun]_vars

(* --------------------------- concurrent solves ------------------------- *)
\* the strictly increasing enumeration of a set of integers
Sorted(S) ==
    CHOOSE f \in [1..Cardinality(S) -> S] :
        \A i \in 1..Cardinality(S) : \A j \in 1..Cardinality(S) :
            i < j => f[i] < f[j]

\* executions of HO_solver(alpha, D20, V0) are started together on the built
\* operators, one for each of up to MaxTasks different values of alpha
Spawn ==
    /\ D20 # 0
    /\ V0 # 0
    /\ tasks = NoTasks
    /\ \E S \in SUBSET (0..MaxAlpha) :
          /\ Cardinality(S) \in 1..MaxTasks
          /\ tasks' = [base |-> mem,
                       run |-> [t \in 1..Cardinality(S) |->
                                   NewTask(Sorted(S)[t])]]
    /\ UNCHANGED <<mem, x, D20, V0, last, ho>>

\* what the decompositions made so far by the tasks show of the library
SharedMemo ==
    {[H |-> tasks.run[t].e.arg, c |-> tasks.run[t].e.c] :
        t \in {u \in DOMAIN tasks.run : tasks.run[u].e.consulted}}

\* task t executes H = -D2Mat + alpha*vpot
FormH(t) ==
    /\ tasks.run[t].pc = "start"
    /\ \E h \in {Hamiltonian(tasks.run[t].alpha, D20, V0, mem)} :
          /\ mem' = h.heap
          /\ tasks' = [tasks EXCEPT !.run[t] =
                 IF h.ok
                 THEN [@ EXCEPT !.pc = "formed", !.Href = h.Href]
                 ELSE [@ EXCEPT !.pc = "done", !.ret = Raise("ValueError")]]
    /\ UNCHANGED <<x, D20, V0, last, ho>>

\* task t executes evals,evects = np.linalg.eigh(H)
Decompose(t) ==
    /\ tasks.run[t].pc = "formed"
    /\ \E c \in IF Memoized(mem[tasks.run[t].Href], SharedMemo)
                THEN {NoChoice} ELSE Choices :
          \E e \in {Eigh(mem[tasks.run[t].Href],
                         [memo |-> SharedMemo, fresh |-> c])} :
             IF e.out.status = "raise"
             THEN /\ tasks' = [tasks EXCEPT !.run[t] =
                         [@ EXCEPT !.pc = "done", !.e = e, !.ret = e.out]]
                  /\ UNCHANGED mem
             ELSE /\ mem' = Alloc(Alloc(mem, e.out.val[1][1]),
                                  e.out.val[1][2])
                  /\ tasks' = [tasks EXCEPT !.run[t] =
                         [@ EXCEPT !.pc = "decomposed", !.e = e,
                                   !.evals = Len(mem) + 1,
                                   !.evects = Len(mem) + 2]]
    /\ UNCHANGED <<x, D20, V0, last, ho>>

\* task t executes return [evals[0],evects.T[0]]
Return(t) ==
    /\ tasks.run[t].pc = "decomposed"
    /\ tasks' = [tasks EXCEPT !.run[t] =
           [@ EXCEPT !.pc = "done",
                     !.ret = SelectGround(mem[tasks.run[t].evals],
                                          mem[tasks.run[t].evects])]]
    /\ UNCHANGED <<mem, x, D20, V0, last, ho>>

\* any task takes its next step
Step == \E t \in DOMAIN tasks.run : FormH(t) \/ Decompose(t) \/ Return(t)

NextTasks == MakeGridSolve \/ CallD2 \/ CallV \/ Spawn \/ Step

SpecTasks == Init /\ [][NextTasks]_vars

(* ======================= properties of the builders ==================== *)
\* the grid, D2 and V the names are bound to
Grid == mem[x]

D2 == mem[D20]

V == mem[V0]

Rows(A) == 0..(A.shape[1] - 1)

\* a D2 has been built from a grid of at least five points with non-zero
\* spacing
BuiltD2 == x # 0 /\ D20 # 0 /\ PyLen(Grid) >= 5 /\ GridSpacing(Grid) # Zero

\* C1: for every grid of length N >= 5 with non-zero spacing, the matrix D2
\* returned by generate_second_derivative_matrix is symmetric:
\* D2[i][j] = D2[j][i] for all 0 <= i, j < N.
C1_D2Symmetric ==
    BuiltD2 => \A i \in Rows(D2) : \A j \in Rows(D2) :
                   At(D2, i, j) = At(D2, j, i)

\* a seven-point grid with a D2 whose off-diagonals are not zero
C1_Witness ==
    /\ BuiltD2
    /\ PyLen(Grid) = 7
    /\ At(D2, 0, 1) # Zero
    /\ At(D2, 3, 5) # Zero

\* the five-point stencil times 12: -30, 16, -1 at distance 0, 1, 2
Stencil12(d) ==
    CASE d = 0 -> -30
      [] d = 1 -> 16
      [] d = 2 -> -1
      [] OTHER -> 0

\* an entry scaled by 12*dx^2
Scaled12(e) == RMul(RMul(FromInt(12), RSq(GridSpacing(Grid))), e)

\* C2: for every grid of length N >= 5 with (non-zero) spacing dx, the
\* builder returns an N x N matrix whose entry (i, j), scaled by 12*dx^2, is
\* -30 when j = i, 16 when |i - j| = 1, -1 when |i - j| = 2 and 0 when
\* |i - j| > 2.
C2_FivePointStencil ==
    BuiltD2 =>
        /\ D2.shape = <<PyLen(Grid), PyLen(Grid)>>
        /\ \A i \in Rows(D2) : \A j \in Rows(D2) :
               Scaled12(At(D2, i, j)) = FromInt(Stencil12(Abs(i - j)))

\* a seven-point grid whose spacing is not 1 (so that the scaling matters),
\* with entries at distance 0, 1, 2 and 3
C2_Witness ==
    /\ BuiltD2
    /\ PyLen(Grid) = 7
    /\ GridSpacing(Grid) = Rat(1, 3)
    /\ At(D2, 3, 3) = Rat(-45, 2) /\ At(D2, 3, 4) = FromInt(12)
    /\ At(D2, 3, 5) = Rat(-3, 4) /\ At(D2, 3, 6) = Zero

\* the first two and the last two rows
BoundaryRows(A) ==
    {0, 1, A.shape[1] - 2, A.shape[1] - 1}

\* C3: the boundary rows of D2 (rows 0, 1, N-2, N-1) use plain truncation:
\* each keeps exactly the stencil coefficients whose column falls inside
\* 0..N-1, with the same values as the interior row 2 has at the same
\* distance, and every other entry of the row, the corners D2[0][N-1],
\* D2[0][N-2], D2[1][N-1] and their mirror images included, is 0: nothing
\* wraps around and nothing is folded back onto an in-range column.
C3_BoundaryTruncated ==
    BuiltD2 => \A r \in BoundaryRows(D2) : \A j \in Rows(D2) :
                   IF Abs(j - r) <= 2
                   THEN At(D2, r, j) = At(D2, 2, 2 + (j - r))
                   ELSE At(D2, r, j) = Zero

\* a six-point grid: the corner entries exist, are 0, and row 0 holds the
\* three in-range coefficients
C3_Witness ==
    /\ BuiltD2
    /\ PyLen(Grid) = 6
    /\ At(D2, 0, 5) = Zero /\ At(D2, 0, 4) = Zero /\ At(D2, 1, 5) = Zero
    /\ At(D2, 5, 0) = Zero /\ At(D2, 4, 0) = Zero /\ At(D2, 5, 1) = Zero
    /\ At(D2, 0, 0) # Zero /\ At(D2, 0, 1) # Zero /\ At(D2, 0, 2) # Zero

\* C4: for every grid x of length N, generate_potential_matrix returns an
\* N x N matrix V that is diagonal and non-negative: V[i][i] = x[i]^2 >= 0
\* for every i, and V[i][j] = 0 for every i # j.
C4_PotentialDiagonal ==
    (x # 0 /\ V0 # 0) =>
        /\ V.shape = <<PyLen(Grid), PyLen(Grid)>>
        /\ \A i \in Rows(V) : \A j \in Rows(V) :
               IF i = j
               THEN /\ At(V, i, i) = RMul(Item(Grid, i), Item(Grid, i))
                    /\ RLeq(Zero, At(V, i, i))
               ELSE At(V, i, j) = Zero

\* a grid with a negative and a fractional point, and its V
C4_Witness ==
    /\ x # 0 /\ V0 # 0
    /\ PyLen(Grid) = 4
    /\ Item(Grid, 0) = FromInt(-2)
    /\ Item(Grid, 1) = Rat(-2, 3)
    /\ At(V, 0, 0) = FromInt(4)
    /\ At(V, 1, 1) = Rat(4, 9)

\* C6 as stated: building a grid fails when N < 5 or xMax <= 0, and no
\* second-derivative matrix is produced for a grid of fewer than 5 points.
C6_SmallGridRejected ==
    /\ (last.fn = "np.linspace" /\ (last.args[2] < 5 \/ last.args[1] <= 0))
           => last.ret.status = "raise"
    /\ (last.fn = "generate_second_derivative_matrix"
            /\ PyLen(last.args[1]) < 5)
           => last.ret.status = "raise"

\* C6 amended: np.linspace(-x_max, x_max, N) fails only for N < 0
\* (ValueError), whatever x_max is; generate_second_derivative_matrix fails
\* only for a grid of fewer than 2 points (IndexError) and returns an N x N
\* matrix for every other grid, a grid of N = 4 points included.
C6_OnlyTinyGridsFail ==
    /\ last.fn = "np.linspace" =>
           /\ last.ret.status = "raise" <=> last.args[2] < 0
           /\ last.ret.status = "raise" => last.ret.exc = "ValueError"
           /\ last.ret.status = "ok" =>
                  last.ret.val[1].shape = <<last.args[2]>>
    /\ last.fn = "generate_second_derivative_matrix" =>
           /\ last.ret.status = "raise" <=> PyLen(last.args[1]) < 2
           /\ last.ret.status = "raise" => last.ret.exc = "IndexError"
           /\ last.ret.status = "ok" =>
                  /\ D20 # 0
                  /\ D2 = last.ret.val[1]
                  /\ D2.shape = <<PyLen(last.args[1]), PyLen(last.args[1])>>

\* a 4 x 4 matrix built from the four-point grid of a non-positive x_max
C6_Witness ==
    /\ last.fn = "generate_second_derivative_matrix"
    /\ last.ret.status = "ok"
    /\ PyLen(Grid) = 4
    /\ Item(Grid, 3) = FromInt(-1)
    /\ D2.shape = <<4, 4>>
    /\ At(D2, 0, 3) = Zero /\ At(D2, 0, 2) # Zero

(* ========================= properties of HO_solver ===================== *)
\* the latest call is a call of HO_solver
SolverCalled == last.fn = "HO_solver"

\* what the latest call's decomposition returned: evals and evects
Evals == last.eighs[1].out.val[1][1]

Evects == last.eighs[1].out.val[1][2]

\* w holds eigenvalues (no nan) in ascending order
Ascending(w) ==
    /\ \A k \in 0..(PyLen(w) - 1) : IsEigenvalue(Item(w, k))
    /\ \A k \in 0..(PyLen(w) - 2) : EigLeq(Item(w, k), Item(w, k + 1))

\* C5: for alpha > 0 the eigenvalue HO_solver returns is the first of the
\* decomposition's eigenvalues, hence the minimum of all of them when they
\* are sorted ascending, and the vector it returns is column 0 of evects,
\* component by component: the eigenvector that belongs to the returned
\* eigenvalue, not row 0 and not any other index.
C5_GroundState ==
    (SolverCalled /\ last.args[1] > 0 /\ last.ret.status = "ok") =>
        LET val == last.ret.val[1][1]
            vec == last.ret.val[1][2]
        IN  /\ val = Item(Evals, 0)
            /\ Ascending(Evals) =>
                   \A k \in 0..(PyLen(Evals) - 1) : EigLeq(val, Item(Evals, k))
            /\ vec.shape = <<PyLen(Evals)>>
            /\ \A i \in 0..(PyLen(Evals) - 1) :
                   /\ Item(vec, i) = At(Evects, i, 0)
                   /\ Item(vec, i) = EigComponent(0, i, val)

\* HO_solver(alpha, D20, V0) with alpha > 0 on a 3-point grid returned the
\* least of three eigenvalues and the three components of its eigenvector
C5_Witness ==
    /\ SolverCalled /\ last.args[1] > 0 /\ last.ret.status = "ok"
    /\ D20 # 0 /\ V0 # 0
    /\ last.args[2] = D2 /\ last.args[3] = V
    /\ PyLen(Evals) = 3
    /\ Ascending(Evals)
    /\ last.ret.val[1][1] = Eigenvalue(0)
    /\ ~EigLeq(Item(Evals, 2), last.ret.val[1][1])
    /\ Item(last.ret.val[1][2], 2) = EigComponent(0, 2, Eigenvalue(0))

\* C7 as stated: HO_solver fails whenever the shapes of D2Mat and vpot
\* differ; no eigenpair is returned for operands of unequal shape.
C7_UnequalShapesRejected ==
    (SolverCalled /\ last.args[2].shape # last.args[3].shape) =>
        last.ret.status = "raise"

\* C7 amended: HO_solver fails with ValueError, before any decomposition,
\* exactly when the shapes of D2Mat and vpot cannot be broadcast together;
\* operands of unequal shapes that broadcast to a non-empty square matrix (an
\* N x N D2Mat with a vpot that is 1 x 1, a length-N vector or a scalar) are
\* accepted, and an eigenpair is returned whenever the decomposition
\* converges.
C7_OnlyUnbroadcastableRejected ==
    SolverCalled =>
        LET sa == last.args[2].shape
            sb == last.args[3].shape
        IN  /\ ~Broadcastable(sa, sb) =>
                   /\ last.ret = Raise("ValueError")
                   /\ last.eighs = <<>>
                   /\ last.Href = 0
            /\ Broadcastable(sa, sb) =>
                   /\ last.ret.exc # "ValueError"
                   /\ last.H.shape = BroadcastShape(sa, sb)
                   /\ (Len(last.H.shape) = 2
                          /\ last.H.shape[1] = last.H.shape[2]
                          /\ last.H.shape[1] >= 1
                          /\ last.eighs[1].c.conv)
                      => last.ret.status = "ok"

\* an eigenpair returned for a 3 x 3 D2Mat and a scalar vpot
C7_Witness ==
    /\ SolverCalled
    /\ last.args[2].shape = <<3, 3>>
    /\ last.args[3].shape = <<>>
    /\ last.ret.status = "ok"
    /\ last.ret.val[1][2].shape = <<3>>

\* the decomposition of the latest call ran and did not converge
NotConverged ==
    /\ SolverCalled
    /\ last.eighs # <<>>
    /\ last.eighs[1].consulted
    /\ ~last.eighs[1].c.conv

\* C8: when the eigendecomposition fails to converge, HO_solver raises the
\* decomposition's own exception: it is not caught or swallowed, eigh is
\* not called again, and nothing is returned (no eigenvalue, no vector).
C8_FailureSurfaced ==
    NotConverged =>
        /\ last.ret = last.eighs[1].out
        /\ last.ret.status = "raise"
        /\ last.ret.exc = "LinAlgError"
        /\ last.ret.val = <<>>
        /\ Len(last.eighs) = 1

\* the decomposition of -D20 + alpha*V0, a finite 3 x 3 matrix, failed
C8_Witness ==
    /\ NotConverged
    /\ D20 # 0 /\ V0 # 0
    /\ last.args[2] = D2 /\ last.args[3] = V
    /\ last.H.shape = <<3, 3>>
    /\ AllFinite(last.H)

C10_NoSideEffects ==
    SolverCalled =>
        /\ last.changed = {}
        /\ Env(x, D20, V0) = last.envpre
        /\ Len(mem) + Len(Literals) = last.npre
        /\ last.Href # 0 => last.Href > last.npre

\* a failing call on D20 and V0 that had formed H
C10_Witness ==
    /\ SolverCalled
    /\ D20 # 0 /\ V0 # 0
    /\ last.args[2] = D2 /\ last.args[3] = V
    /\ last.ret.status = "raise"
    /\ last.Href > last.npre
    /\ last.H.shape = <<3, 3>>

(* ==================== further properties of the builders =============== *)
\* the latest call is a call of generate_second_derivative_matrix
D2Called == last.fn = "generate_second_derivative_matrix"

\* the rows of A that carry all five coefficients: the five entries at
\* distance -2..2 fall inside the matrix and none of them is 0
FullRows(A) ==
    {i \in Rows(A) : \A d \in -2..2 :
        (i + d) \in Rows(A) /\ At(A, i, i + d) # Zero}

\* C11: for a grid of N = 5 points generate_second_derivative_matrix does
\* not raise and returns a 5 x 5 matrix whose non-zero entries are exactly
\* those of the five diagonals -2..2; row 2 is the only row that carries
\* all five coefficients, and for a non-zero spacing they are -1, 16, -30,
\* 16, -1 over 12*dx^2. N = 5 is the smallest size with such a row: the
\* matrix of a shorter grid has none.
C11_FivePointGrid ==
    /\ (D2Called /\ PyLen(last.args[1]) = 5) =>
           /\ last.ret.status = "ok"
           /\ D2 = last.ret.val[1]
           /\ D2.shape = <<5, 5>>
           /\ \A i \in Rows(D2) : \A j \in Rows(D2) :
                  (At(D2, i, j) # Zero) <=> (Abs(i - j) <= 2)
           /\ FullRows(D2) = {2}
           /\ GridSpacing(Grid) # Zero =>
                  \A d \in -2..2 :
                      Scaled12(At(D2, 2, 2 + d)) = FromInt(Stencil12(Abs(d)))
    /\ (D2Called /\ last.ret.status = "ok" /\ PyLen(last.args[1]) < 5) =>
           FullRows(D2) = {}

\* the 5 x 5 matrix of the grid -1, -1/2, 0, 1/2, 1
C11_Witness ==
    /\ D2Called
    /\ PyLen(Grid) = 5
    /\ GridSpacing(Grid) = Rat(1, 2)
    /\ At(D2, 2, 0) = Rat(-1, 3) /\ At(D2, 2, 4) = Rat(-1, 3)
    /\ At(D2, 2, 2) = FromInt(-10)
    /\ At(D2, 0, 3) = Zero /\ At(D2, 1, 4) = Zero

(* ======================== the notebook's own run ======================= *)
\* the plot cell's call HO_solver(2, D20, V0) has returned an eigenpair for
\* the matrices built from np.linspace(-10.0, 10.0, 150)
ExampleSolved ==
    /\ SolverCalled
    /\ last.ret.status = "ok"
    /\ last.args[1] = PlotAlpha
    /\ x # 0 /\ D20 # 0 /\ V0 # 0
    /\ last.args[2] = D2 /\ last.args[3] = V
    /\ PyLen(Grid) = N_grid
    /\ Item(Grid, 0) = FromInt(-x_max)
    /\ Item(Grid, N_grid - 1) = FromInt(x_max)

\* A probe vector v: a hat of height 14 on the 28 central grid points,
\* 1, 2, .., 14, 14, .., 2, 1, and 0 elsewhere.
ProbeLo == N_grid \div 2 - 14

ProbeHi == N_grid \div 2 + 13

Probe(i) ==
    IF i < ProbeLo \/ i > ProbeHi THEN 0
    ELSE IF i < N_grid \div 2 THEN i - ProbeLo + 1
    ELSE ProbeHi - i + 1

\* the least integer >= c*q for an integer c >= 0 and a finite rational q
\* (the integer part of q is split off to keep the products small)
CeilTimes(c, q) ==
    LET w == q.num \div q.den
        r == q.num % q.den
    IN  c * w + ((c * r + q.den - 1) \div q.den)

RECURSIVE UpperRow(_, _, _)
\* an integer >= sum over j >= j0 of v[i]*H[i][j]*v[j]
UpperRow(H, i, j0) ==
    IF j0 > ProbeHi THEN 0
    ELSE CeilTimes(Probe(i) * Probe(j0), At(H, i, j0)) + UpperRow(H, i, j0 + 1)

RECURSIVE UpperQuadFrom(_, _)
UpperQuadFrom(H, i0) ==
    IF i0 > ProbeHi THEN 0
    ELSE UpperRow(H, i0, ProbeLo) + UpperQuadFrom(H, i0 + 1)

\* an integer >= v.H.v, the quadratic form of H at the probe vector
UpperQuad(H) == UpperQuadFrom(H, ProbeLo)

RECURSIVE ProbeNormFrom(_)
ProbeNormFrom(i0) ==
    IF i0 > ProbeHi THEN 0 ELSE Probe(i0) * Probe(i0) + ProbeNormFrom(i0 + 1)

\* v.v
ProbeNorm2 == ProbeNormFrom(ProbeLo)

\* C12 as stated: for x_max = 10.0, N = 150 and alpha = 2 the eigenvalue
\* HO_solver returns, the smallest eigenvalue of H, is approximately
\* sqrt(8) = 2.828. No Rayleigh quotient v.H.v / v.v of H is smaller than
\* its smallest eigenvalue, so that of the probe vector is then at least 2.
C12_GroundNearSqrt8 ==
    ExampleSolved =>
        /\ last.ret.val[1][1] = Eigenvalue(0)
        /\ UpperQuad(last.H) >= 2 * ProbeNorm2

\* C12 amended: for x_max = 10.0, N = 150 and alpha = 2 HO_solver returns
\* the smallest eigenvalue of the 150 x 150 matrix H = -D20 + 2*V0, and that
\* eigenvalue is below 1.6: the Rayleigh quotient of the probe vector is
\* (v.H.v / v.v < 8/5), and the smallest eigenvalue is no larger than any
\* Rayleigh quotient.
C12_GroundBelowEightFifths ==
    ExampleSolved =>
        /\ last.ret.val[1][1] = Eigenvalue(0)
        /\ last.H.shape = <<N_grid, N_grid>>
        /\ \E m \in ho.memo : m.H = last.H /\ m.c.conv
        /\ 5 * UpperQuad(last.H) < 8 * ProbeNorm2

\* the notebook's run has reached the plot cell; v.v = 2030 and v.H.v <= 3170
C12_Witness ==
    /\ ExampleSolved
    /\ ProbeNorm2 = 2030
    /\ UpperQuad(last.H) = 3170
    /\ At(last.H, 74, 74) = RAdd(Rat(22201, 160), Rat(200, 22201))

(* ========================== the Hamiltonian ============================ *)
\* A is a square 2-d array with A[i][j] = A[j][i]
Symmetric(A) ==
    /\ IsSquare2D(A)
    /\ \A i \in Rows(A) : \A j \in Rows(A) : At(A, i, j) = At(A, j, i)

\* the latest call of HO_solver formed H from two 2-d operands of one shape
FormedH ==
    /\ SolverCalled
    /\ last.Href # 0
    /\ NDim(last.args[2]) = 2
    /\ last.args[2].shape = last.args[3].shape

\* the latest call of HO_solver was given the D20 and V0 built from the grid
OnBuilt ==
    /\ SolverCalled
    /\ x # 0 /\ D20 # 0 /\ V0 # 0
    /\ last.args[2] = D2 /\ last.args[3] = V

\* C13: the matrix HO_solver hands to eigh is H with
\* H[i][j] = -D2Mat[i][j] + alpha*vpot[i][j] for all i, j; H is symmetric
\* whenever D2Mat and vpot are, and for the D20 and V0 built from one grid
\* H[i][j] = H[j][i] for all i, j and every alpha.
C13_HamiltonianEntrywise ==
    /\ FormedH =>
           /\ last.eighs # <<>>
           /\ last.eighs[1].arg = last.H
           /\ last.H.shape = last.args[2].shape
           /\ \A i \in 0..(last.H.shape[1] - 1) :
              \A j \in 0..(last.H.shape[2] - 1) :
                  At(last.H, i, j) =
                      RAdd(RNeg(At(last.args[2], i, j)),
                           RMul(FromInt(last.args[1]), At(last.args[3], i, j)))
           /\ (Symmetric(last.args[2]) /\ Symmetric(last.args[3]))
                  => Symmetric(last.H)
    /\ OnBuilt => FormedH /\ Symmetric(last.H)

\* HO_solver(2, D20, V0) on the grid -1, 0, 1: H[0][0] = 5/2 + 2*1,
\* H[0][1] = -4/3, H[0][2] = 1/12, H[1][1] = 5/2 + 2*0
C13_Witness ==
    /\ OnBuilt
    /\ last.args[1] = 2
    /\ last.H.shape = <<3, 3>>
    /\ At(last.H, 0, 0) = Rat(9, 2)
    /\ At(last.H, 0, 1) = Rat(-4, 3) /\ At(last.H, 1, 0) = Rat(-4, 3)
    /\ At(last.H, 0, 2) = Rat(1, 12) /\ At(last.H, 2, 0) = Rat(1, 12)
    /\ At(last.H, 1, 1) = Rat(5, 2)

(* ============================ the lifecycle ============================ *)
\* the kinds of step of a run, told by the call record they leave
GridStep == last' # last /\ last'.fn = "np.linspace"

BuildStep ==
    /\ last' # last
    /\ last'.fn \in {"generate_second_derivative_matrix",
                     "generate_potential_matrix"}

SolveStep == last' # last /\ last'.fn = "HO_solver"

\* the name bound to r before the step is bound to the same object after it,
\* and the object holds what it held
Kept(r, r2) == r # 0 => (r2 = r /\ mem'[r] = mem[r])

\* C14: in every run the grid is created first and once; D20 and V0 are
\* derived from that grid; a solve happens only when both exist, is given
\* exactly those two, forms one H and performs one eigendecomposition, of
\* that H; and no step, a solve for any alpha included, modifies or rebinds
\* the grid, D20 or V0 once they exist.
C14_Lifecycle ==
    [][/\ GridStep => (x = 0 /\ D20 = 0 /\ V0 = 0 /\ ho = NoHo)
       /\ BuildStep => (x # 0 /\ last'.args = <<mem[x]>>)
       /\ SolveStep =>
              /\ x # 0 /\ D20 # 0 /\ V0 # 0
              /\ last'.args[2] = mem[D20] /\ last'.args[3] = mem[V0]
              /\ Ok(mem[D20]) = generate_second_derivative_matrix(mem[x])
              /\ Ok(mem[V0]) = generate_potential_matrix(mem[x])
              /\ last'.Href # 0
              /\ Len(last'.eighs) = 1
              /\ last'.eighs[1].arg = last'.H
       /\ Kept(x, x')
       /\ Kept(D20, D20')
       /\ Kept(V0, V0')]_vars

\* a second solve on the same D20 and V0 of a three-point grid, for the
\* largest alpha
C14_Witness ==
    /\ OnBuilt
    /\ last.again
    /\ last.ret.status = "ok"
    /\ last.args[1] = MaxAlpha
    /\ PyLen(Grid) = 3
    /\ Ok(D2) = generate_second_derivative_matrix(Grid)
    /\ Ok(V) = generate_potential_matrix(Grid)

(* ============================== row sums =============================== *)
RECURSIVE RowSumFrom(_, _, _)
\* A[i][j] + A[i][j+1] + ... + A[i][n-1]
RowSumFrom(A, i, j) ==
    IF j >= A.shape[2] THEN Zero
    ELSE RAdd(At(A, i, j), RowSumFrom(A, i, j + 1))

RowSum(A, i) == RowSumFrom(A, i, 0)

\* C16: for N >= 5 every interior row i (2 <= i <= N-3) of D2 sums to zero,
\* and the truncated boundary rows do not: scaled by 12*dx^2, rows 0 and
\* N-1 sum to -15 and rows 1 and N-2 sum to +1.
C16_RowSums ==
    BuiltD2 =>
        LET N == PyLen(Grid)
        IN  /\ \A i \in 2..(N - 3) : RowSum(D2, i) = Zero
            /\ \A i \in {0, N - 1} :
                   Scaled12(RowSum(D2, i)) = FromInt(-15)
            /\ \A i \in {1, N - 2} :
                   Scaled12(RowSum(D2, i)) = FromInt(1)

\* a seven-point grid of spacing 1/3: three interior rows sum to zero, row
\* 0 sums to -15/(12*dx^2) = -45/4 and row 5 to 1/(12*dx^2) = 3/4
C16_Witness ==
    /\ BuiltD2
    /\ PyLen(Grid) = 7
    /\ GridSpacing(Grid) = Rat(1, 3)
    /\ RowSum(D2, 3) = Zero
    /\ At(D2, 3, 3) # Zero
    /\ RowSum(D2, 0) = Rat(-45, 4)
    /\ RowSum(D2, 5) = Rat(3, 4)

(* ===================== what the builder reads of the grid ============== *)
\* xgrid[1] - xgrid[0]
FirstSpacing(g) == RSub(Item(g, 1), Item(g, 0))

\* the uniform grid with the length, the first point and the first spacing
\* of g
Uniform(g) ==
    Vec([i \in 1..PyLen(g) |->
            RAdd(Item(g, 0), RMul(FromInt(i - 1), FirstSpacing(g)))])

\* grids with the length and the first two points of g: g with one of its
\* other points moved, and the uniform one
SameStart(g) ==
    {Moved(g, k) : k \in 2..(PyLen(g) - 1)} \cup {Uniform(g)}

\* a D2 has been built from a grid whose first two points differ
BuiltFromTwo ==
    /\ x # 0
    /\ D20 # 0
    /\ FirstSpacing(Grid) # Zero

\* C17: generate_second_derivative_matrix reads the grid only through its
\* length and its first two points: every grid with the same length and the
\* same first two points, uniform or not, yields the same D2, and none is
\* rejected for being non-uniform.
C17_OnlyFirstSpacingRead ==
    BuiltFromTwo =>
        \A g \in SameStart(Grid) :
            generate_second_derivative_matrix(g) = Ok(D2)

\* a five-point grid that is not uniform, with its D2, and another
\* non-uniform grid with the same start
C17_Witness ==
    /\ BuiltFromTwo
    /\ PyLen(Grid) = 5
    /\ Grid # Uniform(Grid)
    /\ Moved(Grid, 4) # Grid
    /\ Moved(Grid, 4) # Uniform(Grid)
    /\ At(D2, 2, 2) = RDiv(Rat(-5, 2), RSq(FirstSpacing(Grid)))

(* ========================= symmetries of D2 and H ====================== *)
\* A[i][j] depends only on i - j
Toeplitz(A) ==
    \A i \in 0..(A.shape[1] - 2) : \A j \in 0..(A.shape[2] - 2) :
        At(A, i, j) = At(A, i + 1, j + 1)

\* A[i][j] = A[N-1-i][N-1-j]
Centrosymmetric(A) ==
    \A i \in 0..(A.shape[1] - 1) : \A j \in 0..(A.shape[2] - 1) :
        At(A, i, j) = At(A, A.shape[1] - 1 - i, A.shape[2] - 1 - j)

\* x[N-1-i] = -x[i]
SymmetricGrid(g) ==
    \A i \in 0..(PyLen(g) - 1) : Item(g, PyLen(g) - 1 - i) = RNeg(Item(g, i))

\* C18: every D2 the builder returns is Toeplitz (D2[i][j] depends only on
\* i - j), and when HO_solver is given the D20 and V0 built from a grid that
\* is symmetric about 0, the Hamiltonian it forms is centrosymmetric:
\* H[i][j] = H[N-1-i][N-1-j] for all i, j, for every alpha.
C18_ToeplitzCentrosymmetric ==
    /\ D20 # 0 => Toeplitz(D2)
    /\ (OnBuilt /\ SymmetricGrid(Grid)) =>
           /\ last.Href # 0
           /\ last.H.shape = <<PyLen(Grid), PyLen(Grid)>>
           /\ Centrosymmetric(last.H)

\* the notebook's run: the 150-point grid is symmetric about 0, H is
\* centrosymmetric with all five diagonals present, and its diagonal is
\* not constant (H itself is not Toeplitz)
C18_Witness ==
    /\ ExampleSolved
    /\ SymmetricGrid(Grid)
    /\ Item(Grid, 0) # Zero
    /\ At(D2, 0, 2) # Zero /\ At(D2, 0, 2) = At(D2, 147, 149)
    /\ At(last.H, 0, 0) = At(last.H, 149, 149)
    /\ At(last.H, 0, 1) = At(last.H, 149, 148)
    /\ At(last.H, 0, 0) # At(last.H, 1, 1)

(* ======================= alpha and the diagonal of H =================== *)
\* 30/(12*dx^2) + alpha*x[i]^2
DiagonalOfH(alpha, i) ==
    RAdd(RDiv(FromInt(30), RMul(FromInt(12), RSq(FirstSpacing(Grid)))),
         RMul(FromInt(alpha), RSq(Item(Grid, i))))

\* C19: when HO_solver is given the D20 and V0 built from a grid (of
\* non-zero spacing dx), alpha reaches only the diagonal of H: for all
\* i # j, H[i][j] = -D2[i][j] whatever alpha is, and
\* H[i][i] = 30/(12*dx^2) + alpha*x[i]^2, which is strictly positive for
\* every alpha >= 0; HO_solver makes no check that alpha > 0: with
\* alpha = 0 it forms H and hands it to eigh like with any other alpha.
C19_AlphaOnDiagonal ==
    (OnBuilt /\ FirstSpacing(Grid) # Zero) =>
        /\ last.Href # 0
        /\ last.eighs # <<>>
        /\ last.eighs[1].arg = last.H
        /\ last.H.shape = <<PyLen(Grid), PyLen(Grid)>>
        /\ \A i \in Rows(last.H) : \A j \in Rows(last.H) :
               IF i = j
               THEN /\ At(last.H, i, i) = DiagonalOfH(last.args[1], i)
                    /\ RLeq(Zero, At(last.H, i, i))
                    /\ At(last.H, i, i) # Zero
               ELSE At(last.H, i, j) = RNeg(At(D2, i, j))

\* HO_solver(0, D20, V0) on the grid -1, 0, 1 returned a ground state:
\* H = -D20, with 5/2 on the diagonal
C19_Witness ==
    /\ OnBuilt
    /\ last.args[1] = 0
    /\ last.ret.status = "ok"
    /\ PyLen(Grid) = 3
    /\ FirstSpacing(Grid) = FromInt(1)
    /\ At(last.H, 0, 0) = Rat(5, 2)
    /\ At(last.H, 0, 1) = Rat(-4, 3)
    /\ At(last.H, 0, 2) = Rat(1, 12)

(* ========================== concurrent solves ========================== *)
\* what task t's call leaves when it runs alone from the heap the tasks
\* were started on, the library choosing as it chose for the task
Alone(t) ==
    HO_solver(tasks.run[t].alpha, D20, V0,
              [heap |-> tasks.base, env |-> Env(x, D20, V0),
               lib |-> [memo |-> {}, fresh |-> tasks.run[t].e.c]])

\* C15: concurrent solves for different alpha are independent under every
\* interleaving of their steps (form H, decompose, return): the objects
\* that existed when the tasks started - the shared D2 and V among them -
\* are never written; each task's H is an object of its own, allocated
\* after the start and shared with no other task; and each task forms the
\* H, makes the decomposition and returns the result that its call makes
\* when it runs alone.
C15_TasksIndependent ==
    /\ \A i \in 1..Len(tasks.base) : mem[i] = tasks.base[i]
    /\ \A t \in DOMAIN tasks.run :
          LET T == tasks.run[t]
              A == Alone(t)
          IN  /\ T.Href # 0 =>
                    /\ T.Href > Len(tasks.base)
                    /\ \A u \in DOMAIN tasks.run \ {t} :
                           tasks.run[u].Href # T.Href
                    /\ mem[T.Href] = HOf(A)
              /\ T.e.consulted => <<T.e>> = A.eighs
              /\ T.pc = "done" => T.ret = A.ret

\* two tasks with different alpha have both returned a ground state of a
\* three-point grid; the second formed its H before the first decomposed,
\* and their Hamiltonians differ
C15_Witness ==
    /\ Len(tasks.run) = 2
    /\ PyLen(Grid) = 3
    /\ tasks.run[1].alpha # tasks.run[2].alpha
    /\ \A t \in 1..2 : tasks.run[t].pc = "done"
                        /\ tasks.run[t].ret.status = "ok"
    /\ tasks.run[1].Href < tasks.run[2].Href
    /\ tasks.run[2].Href < tasks.run[1].evals
    /\ mem[tasks.run[1].Href] # mem[tasks.run[2].Href]

====
